---- MODULE Spec2Model ----
(***************************************************************************)
(* MoniBags SDK: the HTTP client of monibags/sdk.py.                       *)
(*                                                                         *)
(* Python strings are sequences of string tokens (a username is a sequence *)
(* of one-character tokens, a message is the sequence of the pieces its    *)
(* f-string concatenates).  A Python dict is a TLA+ record; a JSON value   *)
(* that is not an object is the record [json_array |-> ...].  The remote   *)
(* service and the requests library are the environment: every call of     *)
(* session.post / session.get draws its outcome from a finite set.         *)
(***************************************************************************)
EXTENDS Integers, Sequences, FiniteSets, TLC

VARIABLES
    pc,        \* position of the running operation
    call,      \* the operation invoked and its arguments
    trace,     \* observable effects in order: requests, sleeps, callbacks, prints
    outcome,   \* how the operation ended: a returned value or a raised exception
    i,         \* batch_check: the loop index of enumerate(usernames)
    results,   \* batch_check: the results list
    clock,     \* what datetime.now() reads
    fs         \* the file system: file name -> content, or NoFile

vars == <<pc, call, trace, outcome, i, results, clock, fs>>

----------------------------------------------------------------------------
(* Bounds of the model *)

MaxLen == 2          \* longest username drawn as an input
MaxBatch == 3        \* longest list given to batch_check
MaxExport == 2       \* longest list given to export_results
MaxCliNames == 2     \* most usernames on a command line or in a batch file

Alphabet == {"@", "a", "b"}

Usernames == UNION {[1..n -> Alphabet] : n \in 0..MaxLen}

----------------------------------------------------------------------------
(* Python primitives *)

Digit == <<"0", "1", "2", "3", "4", "5", "6", "7", "8", "9">>

\* str(n) / f"{n}" of a non-negative int
RECURSIVE Str(_)
Str(n) == IF n < 10 THEN Digit[n + 1] ELSE Str(n \div 10) \o Digit[(n % 10) + 1]

\* A plausible slip: slicing off the first character instead of lstrip.
LstripFirstOnly(s) ==
    IF s # <<>> /\ Head(s) = "@" THEN Tail(s) ELSE s

\* str.lstrip('@'): every leading '@' is removed
RECURSIVE Lstrip(_)
Lstrip(s) ==
    IF s # <<>> /\ Head(s) = "@" THEN Lstrip(Tail(s)) ELSE s

\* {}
EmptyDict == <<>>

\* dict.get(k, default)
Get(d, k, default) == IF k \in DOMAIN d THEN d[k] ELSE default

\* d[k] = v on a dict
SetItem(d, k, v) == [x \in (DOMAIN d) \cup {k} |-> IF x = k THEN v ELSE d[x]]

\* whether a parsed JSON value is a dict (supports item assignment by key)
IsDict(v) == "json_array" \notin DOMAIN v

\* datetime.now().isoformat() when the clock reads t
Isoformat(t) == "T" \o Str(t)

Return(v) == [kind |-> "return", value |-> v]
Raise(cls, msg) == [kind |-> "raise", cls |-> cls, msg |-> msg]

----------------------------------------------------------------------------
(* Exception classes *)

\* monibags/exceptions.py
SdkBases ==
    [MoniBagsException |-> {"Exception"},
     RateLimitError    |-> {"MoniBagsException"},
     APIError          |-> {"MoniBagsException"}]

\* requests.exceptions and the builtins the SDK meets
LibBases ==
    [BaseException    |-> {},
     SystemExit       |-> {"BaseException"},
     Exception        |-> {"BaseException"},
     AttributeError   |-> {"Exception"},
     FileNotFoundError |-> {"OSError"},
     TypeError        |-> {"Exception"},
     ValueError       |-> {"Exception"},
     OSError          |-> {"Exception"},
     RequestException |-> {"OSError"},
     Timeout          |-> {"RequestException"},
     ConnectionError  |-> {"RequestException"},
     ConnectTimeout   |-> {"ConnectionError", "Timeout"},
     ReadTimeout      |-> {"Timeout"},
     InvalidJSONError |-> {"RequestException"},
     JSONDecodeError  |-> {"InvalidJSONError"}]

Bases(cls) == IF cls \in DOMAIN SdkBases THEN SdkBases[cls] ELSE LibBases[cls]

RECURSIVE IsInstance(_, _)
IsInstance(cls, base) ==
    \/ cls = base
    \/ \E b \in Bases(cls) : IsInstance(b, base)

----------------------------------------------------------------------------
(* The remote service and the requests library *)

StatusCodes == {200, 201, 204, 404, 429, 500}

\* response bodies: three JSON objects, a JSON array, and a body that is not JSON
Texts == {"{clean}", "{changed}", "{failed}", "[]", "<html>"}

Parseable(text) == text # "<html>"

\* json.loads of a body
JsonLoads(text) ==
    CASE text = "{clean}" ->
           [success |-> TRUE,
            data |-> [current_username |-> <<"a">>, is_clean |-> TRUE,
                      total_changes |-> 0, history |-> <<>>]]
      [] text = "{changed}" ->
           [success |-> TRUE,
            data |-> [current_username |-> <<"b">>, is_clean |-> FALSE,
                      total_changes |-> 2, history |-> <<"old", "older">>]]
      [] text = "{failed}" ->
           [success |-> FALSE, error |-> <<"User not found">>,
            username |-> <<"s", "r", "v">>]
      [] text = "[]" -> [json_array |-> <<>>]

Response(status, text) == [kind |-> "response", status_code |-> status, text |-> text]

\* what the library's timeout exceptions say: nothing, or the library's own wording
TimeoutMsgs(timeout) == {<<>>, <<"Read timed out. (read timeout=", Str(timeout), ")">>}

\* every outcome of session.post / session.get called with this timeout
HttpOutcomes(timeout) ==
    {Response(s, t) : s \in StatusCodes, t \in Texts}
    \cup {Raise(c, m) : c \in {"ReadTimeout", "ConnectTimeout"}, m \in TimeoutMsgs(timeout)}
    \cup {Raise("ConnectionError", <<"Connection refused">>)}

\* response.json(): requests >= 2.28 raises its own JSONDecodeError
ResponseJson(resp) ==
    IF Parseable(resp.text)
      THEN Return(JsonLoads(resp.text))
      ELSE Raise("JSONDecodeError", <<"Expecting value">>)

----------------------------------------------------------------------------
(* check_username_history *)

DefaultCheckTimeout == 30

CheckRequest(username, timeout) ==
    [ev |-> "request", method |-> "POST", path |-> "/api/check-username-history",
     json |-> [username |-> Lstrip(username)], timeout |-> timeout]

\* A plausible slip: every 2xx status is taken for success.
CheckTryBodyAny2xx(env) ==
    IF env.kind = "raise" THEN env
    ELSE IF env.status_code = 429
      THEN Raise("RateLimitError",
                 <<"Rate limit exceeded. Please wait before making another request.">>)
    ELSE IF env.status_code \div 100 = 2
      THEN ResponseJson(env)
    ELSE Raise("APIError",
               <<"API returned status code ", Str(env.status_code), ": ", env.text>>)

\* the body of the try block, given what session.post did
CheckTryBody(env) ==
    IF env.kind = "raise" THEN env
    ELSE IF env.status_code = 429
      THEN Raise("RateLimitError",
                 <<"Rate limit exceeded. Please wait before making another request.">>)
    ELSE IF env.status_code = 200
      THEN ResponseJson(env)
    ELSE Raise("APIError",
               <<"API returned status code ", Str(env.status_code), ": ", env.text>>)

\* A plausible slip: the handlers catch Exception instead of the requests classes.
CheckHandlersCatchAll(r, timeout) ==
    IF r.kind = "raise" /\ IsInstance(r.cls, "Timeout")
      THEN Raise("MoniBagsException",
                 <<"Request timed out after ", Str(timeout), " seconds">>)
    ELSE IF r.kind = "raise" /\ IsInstance(r.cls, "Exception")
      THEN Raise("MoniBagsException", <<"Request failed: ">> \o r.msg)
    ELSE r

\* the except clauses, tried in order
CheckHandlers(r, timeout) ==
    IF r.kind = "raise" /\ IsInstance(r.cls, "Timeout")
      THEN Raise("MoniBagsException",
                 <<"Request timed out after ", Str(timeout), " seconds">>)
    ELSE IF r.kind = "raise" /\ IsInstance(r.cls, "RequestException")
      THEN Raise("MoniBagsException", <<"Request failed: ">> \o r.msg)
    ELSE r

CheckUsernameHistory(username, timeout, env) ==
    CheckHandlers(CheckTryBody(env), timeout)

----------------------------------------------------------------------------
(* analyze_profile *)

DefaultAnalyzeTimeout == 60

AnalyzeRequest(username, timeout) ==
    [ev |-> "request", method |-> "POST", path |-> "/api/analyze",
     json |-> [username |-> Lstrip(username)], timeout |-> timeout]

AnalyzeTryBody(env) ==
    IF env.kind = "raise" THEN env
    ELSE IF env.status_code = 429
      THEN Raise("RateLimitError", <<"Rate limit exceeded">>)
    ELSE IF env.status_code = 200
      THEN ResponseJson(env)
    ELSE Raise("APIError", <<"API returned status code ", Str(env.status_code)>>)

\* A plausible slip: only connection failures are wrapped.
AnalyzeHandlersOnlyConnection(r, timeout) ==
    IF r.kind = "raise" /\ IsInstance(r.cls, "ConnectionError")
      THEN Raise("MoniBagsException", <<"Request failed: ">> \o r.msg)
    ELSE r

\* the single except clause
AnalyzeHandlers(r, timeout) ==
    IF r.kind = "raise" /\ IsInstance(r.cls, "RequestException")
      THEN Raise("MoniBagsException", <<"Request failed: ">> \o r.msg)
    ELSE r

AnalyzeProfile(username, timeout, env) ==
    AnalyzeHandlers(AnalyzeTryBody(env), timeout)

----------------------------------------------------------------------------
(* get_rate_limit_status *)

RateLimitTimeout == 10

RateLimitRequest ==
    [ev |-> "request", method |-> "GET", path |-> "/api/rate-limit",
     timeout |-> RateLimitTimeout]

RateLimitTryBody(env) ==
    IF env.kind = "raise" THEN env
    ELSE IF env.status_code = 200
      THEN ResponseJson(env)
    ELSE Return([error |-> <<"Failed to get rate limit status">>])

\* A plausible slip: only the SDK's own exceptions are converted.
RateLimitHandlerNarrow(r) ==
    IF r.kind = "raise" /\ IsInstance(r.cls, "MoniBagsException")
      THEN Return([error |-> r.msg])
    ELSE r

\* except Exception as e: return {'error': str(e)}
RateLimitHandler(r) ==
    IF r.kind = "raise" /\ IsInstance(r.cls, "Exception")
      THEN Return([error |-> r.msg])
    ELSE r

GetRateLimitStatus(env) == RateLimitHandler(RateLimitTryBody(env))

----------------------------------------------------------------------------
(* Single calls of the client: one operation, one exchange *)

NoFile == [exists |-> FALSE]

InitCall ==
    /\ pc = "idle"
    /\ call = [op |-> "none"]
    /\ trace = <<>>
    /\ outcome = [kind |-> "none"]
    /\ i = 0
    /\ results = <<>>
    /\ clock = 0
    /\ fs = [f \in {"out"} |-> NoFile]

CallCheckUsernameHistory ==
    /\ pc = "idle"
    /\ \E u \in Usernames, t \in {DefaultCheckTimeout, 5} :
         \E env \in HttpOutcomes(t) :
           /\ call' = [op |-> "check_username_history", username |-> u,
                       timeout |-> t, env |-> env]
           /\ trace' = <<CheckRequest(u, t)>>
           /\ outcome' = CheckUsernameHistory(u, t, env)
    /\ pc' = "done"
    /\ UNCHANGED <<i, results, clock, fs>>

CallAnalyzeProfile ==
    /\ pc = "idle"
    /\ \E u \in Usernames, t \in {DefaultAnalyzeTimeout, 5} :
         \E env \in HttpOutcomes(t) :
           /\ call' = [op |-> "analyze_profile", username |-> u,
                       timeout |-> t, env |-> env]
           /\ trace' = <<AnalyzeRequest(u, t)>>
           /\ outcome' = AnalyzeProfile(u, t, env)
    /\ pc' = "done"
    /\ UNCHANGED <<i, results, clock, fs>>

CallGetRateLimitStatus ==
    /\ pc = "idle"
    /\ \E env \in HttpOutcomes(RateLimitTimeout) :
           /\ call' = [op |-> "get_rate_limit_status", env |-> env]
           /\ trace' = <<RateLimitRequest>>
           /\ outcome' = GetRateLimitStatus(env)
    /\ pc' = "done"
    /\ UNCHANGED <<i, results, clock, fs>>

NextCall ==
    \/ CallCheckUsernameHistory
    \/ CallAnalyzeProfile
    \/ CallGetRateLimitStatus

SpecCall == InitCall /\ [][NextCall]_vars

----------------------------------------------------------------------------
(* Properties of the single calls *)

Contains(msg, tok) == \E k \in DOMAIN msg : msg[k] = tok

IsPost == pc = "done" /\ call.op \in {"check_username_history", "analyze_profile"}

GotStatus(s) == call.env.kind = "response" /\ call.env.status_code = s

GotOtherStatus ==
    call.env.kind = "response" /\ call.env.status_code \notin {200, 429}

\* C3: for check_username_history and analyze_profile, a response with status
\* 429 makes the call fail with RateLimitError; the except clauses for the
\* transport errors neither catch nor re-wrap it.
C3_RateLimitOn429 ==
    (IsPost /\ GotStatus(429)) =>
        /\ outcome.kind = "raise"
        /\ outcome.cls = "RateLimitError"

C3_Witness ==
    /\ IsPost /\ GotStatus(429)
    /\ call.op = "check_username_history"
    /\ outcome.kind = "raise" /\ outcome.cls = "RateLimitError"

\* C4: for both operations, every response whose status is neither 200 nor 429
\* (201 and 204 included) makes the call fail with an APIError whose message
\* contains the status code; nothing is returned.
C4_ApiErrorOnOtherStatus ==
    (IsPost /\ GotOtherStatus) =>
        /\ outcome.kind = "raise"
        /\ outcome.cls = "APIError"
        /\ Contains(outcome.msg, Str(call.env.status_code))

C4_Witness ==
    /\ IsPost /\ GotStatus(201)
    /\ call.op = "check_username_history"
    /\ outcome.kind = "raise" /\ outcome.cls = "APIError"
    /\ Contains(outcome.msg, "201")

SentUsername == trace[1].json.username

\* C5 as stated: exactly one leading '@' is stripped, so the username sent is
\* the input without its first character when that is '@', and the input
\* itself otherwise.
C5_StripsExactlyOne ==
    IsPost =>
        SentUsername = IF call.username # <<>> /\ Head(call.username) = "@"
                         THEN Tail(call.username)
                         ELSE call.username

\* C5 as amended: every leading '@' is stripped: the username sent is the
\* input without its longest prefix of '@' characters, so it never begins
\* with '@'; an input without a leading '@' is sent unchanged.
C5_StripsAllLeading ==
    IsPost =>
        LET u == call.username
            sent == SentUsername
        IN /\ \E k \in 0..Len(u) :
                /\ sent = SubSeq(u, k + 1, Len(u))
                /\ \A j \in 1..k : u[j] = "@"
           /\ (sent = <<>> \/ sent[1] # "@")

C5_Witness ==
    /\ IsPost
    /\ call.username = <<"@", "@">>
    /\ SentUsername = <<>>

\* C6: get_rate_limit_status never raises; for a non-200 status, a timeout, a
\* transport failure or a 200 response whose body is not JSON it returns a
\* mapping with an 'error' key, and the parsed body of a 200 response is
\* returned as it is.
C6_RateLimitStatusNeverRaises ==
    (pc = "done" /\ call.op = "get_rate_limit_status") =>
        /\ outcome.kind = "return"
        /\ IF GotStatus(200) /\ Parseable(call.env.text)
             THEN outcome.value = JsonLoads(call.env.text)
             ELSE /\ IsDict(outcome.value)
                  /\ "error" \in DOMAIN outcome.value

C6_Witness ==
    /\ pc = "done" /\ call.op = "get_rate_limit_status"
    /\ call.env.kind = "raise" /\ call.env.cls = "ReadTimeout"
    /\ outcome.kind = "return"
    /\ "error" \in DOMAIN outcome.value

IsTimeout == call.env.kind = "raise" /\ IsInstance(call.env.cls, "Timeout")

\* C8: analyze_profile and check_username_history have the same failure
\* contract: a status other than 200 and 429 yields an APIError that carries
\* the status code and the body text, and a network timeout yields the generic
\* client error whose message names the timeout in seconds.
C8_SameFailureContract ==
    IsPost =>
        /\ GotOtherStatus =>
             /\ outcome.kind = "raise" /\ outcome.cls = "APIError"
             /\ Contains(outcome.msg, Str(call.env.status_code))
             /\ Contains(outcome.msg, call.env.text)
        /\ IsTimeout =>
             /\ outcome.kind = "raise" /\ outcome.cls = "MoniBagsException"
             /\ Contains(outcome.msg, Str(call.timeout))

\* C9: every failure the two operations report for a status or a transport
\* cause is a MoniBagsException: RateLimitError for 429, APIError for another
\* non-200 status, and MoniBagsException itself for a timeout, another
\* transport failure or a requests error while decoding a 200 body; no
\* requests exception escapes.
C9_FailuresAreSdkErrors ==
    IsPost =>
        /\ outcome.kind = "raise" => IsInstance(outcome.cls, "MoniBagsException")
        /\ outcome.kind = "raise" => ~IsInstance(outcome.cls, "RequestException")
        /\ GotStatus(429) => (outcome.kind = "raise" /\ outcome.cls = "RateLimitError")
        /\ GotOtherStatus => (outcome.kind = "raise" /\ outcome.cls = "APIError")
        /\ (\/ call.env.kind = "raise"
            \/ (GotStatus(200) /\ ~Parseable(call.env.text))) =>
               (outcome.kind = "raise" /\ outcome.cls = "MoniBagsException")

C9_Witness ==
    /\ IsPost /\ call.op = "analyze_profile"
    /\ call.env.kind = "raise" /\ call.env.cls = "ReadTimeout"
    /\ outcome.kind = "raise" /\ outcome.cls = "MoniBagsException"

----------------------------------------------------------------------------
(* batch_check *)

DefaultDelay == 2

\* the usernames a batch is drawn from, one of them with a leading '@'
BatchNames == {<<"a">>, <<"@", "b">>}

BatchLists == UNION {[1..n -> BatchNames] : n \in 0..MaxBatch}

Delays == {0, DefaultDelay}

\* what one exchange of a batch can produce: each kind of 200 body, a rate
\* limit, a server error, a timeout
BatchOutcomes ==
    {Response(200, t) : t \in {"{clean}", "{failed}", "[]", "<html>"}}
    \cup {Response(429, "<html>"), Response(500, "<html>"), Raise("ReadTimeout", <<>>)}

\* A plausible slip: the callback is given the zero-based index.
BatchProgressZeroBased(callback, idx, total, username) ==
    IF callback
      THEN [ev |-> "callback", current |-> idx, total |-> total, username |-> username]
      ELSE [ev |-> "print",
            text |-> <<"Checking ", Str(idx + 1), "/", Str(total), ": @">> \o username]

\* the progress notification of one iteration
BatchProgress(callback, idx, total, username) ==
    IF callback
      THEN [ev |-> "callback", current |-> idx + 1, total |-> total, username |-> username]
      ELSE [ev |-> "print",
            text |-> <<"Checking ", Str(idx + 1), "/", Str(total), ": @">> \o username]

\* A plausible slip: the result is tagged with the cleaned username, and a
\* username the body already carries is kept.
BatchTryBodyTagsCleaned(username, env, now) ==
    LET r == CheckUsernameHistory(username, DefaultCheckTimeout, env)
    IN IF r.kind = "raise" THEN r
       ELSE IF ~IsDict(r.value)
         THEN Raise("TypeError", <<"list indices must be integers or slices, not str">>)
       ELSE Return(SetItem(SetItem(r.value, "username",
                                   Get(r.value, "username", Lstrip(username))),
                           "timestamp", Isoformat(now)))

\* the try block of one iteration: the check, then the two taggings
BatchTryBody(username, env, now) ==
    LET r == CheckUsernameHistory(username, DefaultCheckTimeout, env)
    IN IF r.kind = "raise" THEN r
       ELSE IF ~IsDict(r.value)
         THEN Raise("TypeError", <<"list indices must be integers or slices, not str">>)
       ELSE Return(SetItem(SetItem(r.value, "username", username), "timestamp", Isoformat(now)))

\* A plausible slip: only the SDK's own exceptions are downgraded.
BatchExceptSdkOnly(r, username, now) ==
    IF r.kind = "raise" /\ IsInstance(r.cls, "MoniBagsException")
      THEN Return([username |-> username, success |-> FALSE,
                   error |-> r.msg, timestamp |-> Isoformat(now)])
      ELSE r

\* except Exception as e: the failed-result record
BatchExcept(r, username, now) ==
    IF r.kind = "raise" /\ IsInstance(r.cls, "Exception")
      THEN Return([username |-> username, success |-> FALSE,
                   error |-> r.msg, timestamp |-> Isoformat(now)])
      ELSE r

\* A plausible slip: the delay also follows the last request.
BatchShouldSleepAfterEach(idx, total) == idx < total

\* if i < total - 1
BatchShouldSleep(idx, total) == idx < total - 1

Total == Len(call.usernames)

InitBatch ==
    /\ pc = "idle"
    /\ call = [op |-> "none"]
    /\ trace = <<>>
    /\ outcome = [kind |-> "none"]
    /\ i = 0
    /\ results = <<>>
    /\ clock = 0
    /\ fs = [f \in {"out"} |-> NoFile]

\* entry: results = [], total = len(usernames); an empty list returns at once
CallBatchCheck ==
    /\ pc = "idle"
    /\ \E us \in BatchLists, d \in Delays, cb \in BOOLEAN :
         /\ call' = [op |-> "batch_check", usernames |-> us, delay |-> d,
                     callback |-> cb]
         /\ IF us = <<>>
              THEN pc' = "done" /\ outcome' = Return(<<>>)
              ELSE pc' = "progress" /\ UNCHANGED outcome
    /\ results' = <<>>
    /\ i' = 0
    /\ UNCHANGED <<trace, clock, fs>>

\* A plausible slip: a failing callback ends the loop with the results so far.
BatchNotifyReturnsPartial ==
    /\ pc = "progress"
    /\ trace' = Append(trace, BatchProgress(call.callback, i, Total, call.usernames[i + 1]))
    /\ \E raises \in BOOLEAN :
         IF call.callback /\ raises
           THEN pc' = "done" /\ outcome' = Return(results)
           ELSE pc' = "check" /\ UNCHANGED outcome
    /\ UNCHANGED <<call, i, results, clock, fs>>

\* the progress notification; an exception of the caller's callback is raised
\* outside the try block and leaves batch_check
BatchNotify ==
    /\ pc = "progress"
    /\ trace' = Append(trace, BatchProgress(call.callback, i, Total, call.usernames[i + 1]))
    /\ \E raises \in BOOLEAN :
         IF call.callback /\ raises
           THEN pc' = "done" /\ outcome' = Raise("ValueError", <<"callback failed">>)
           ELSE pc' = "check" /\ UNCHANGED outcome
    /\ UNCHANGED <<call, i, results, clock, fs>>

\* A plausible slip: a rate-limited username is requested a second time.
BatchCheckOneRetries ==
    /\ pc = "check"
    /\ \E env \in BatchOutcomes, again \in BatchOutcomes :
         LET username == call.usernames[i + 1]
             now == clock + 1
             retry == env.kind = "response" /\ env.status_code = 429
             last == IF retry THEN again ELSE env
             r == BatchExcept(BatchTryBody(username, last, now), username, now)
             exchange(e) == <<CheckRequest(username, DefaultCheckTimeout),
                              [ev |-> "response", env |-> e]>>
         IN /\ trace' = trace \o exchange(env)
                         \o (IF retry THEN exchange(again) ELSE <<>>)
            /\ clock' = now
            /\ IF r.kind = "return"
                 THEN /\ results' = Append(results, r.value)
                      /\ pc' = "sleep"
                      /\ UNCHANGED outcome
                 ELSE /\ outcome' = r
                      /\ pc' = "done"
                      /\ UNCHANGED results
    /\ UNCHANGED <<call, i, fs>>

\* the try/except of one iteration: one request, one appended result
BatchCheckOne ==
    /\ pc = "check"
    /\ \E env \in BatchOutcomes :
         LET username == call.usernames[i + 1]
             now == clock + 1
             r == BatchExcept(BatchTryBody(username, env, now), username, now)
         IN /\ trace' = trace \o <<CheckRequest(username, DefaultCheckTimeout),
                                   [ev |-> "response", env |-> env]>>
            /\ clock' = now
            /\ IF r.kind = "return"
                 THEN /\ results' = Append(results, r.value)
                      /\ pc' = "sleep"
                      /\ UNCHANGED outcome
                 ELSE /\ outcome' = r
                      /\ pc' = "done"
                      /\ UNCHANGED results
    /\ UNCHANGED <<call, i, fs>>

\* the delay, then the next iteration or the return
BatchSleep ==
    /\ pc = "sleep"
    /\ IF BatchShouldSleep(i, Total)
         THEN /\ trace' = Append(trace, [ev |-> "sleep", secs |-> call.delay])
              /\ clock' = clock + call.delay
         ELSE UNCHANGED <<trace, clock>>
    /\ i' = i + 1
    /\ IF i + 1 < Total
         THEN pc' = "progress" /\ UNCHANGED outcome
         ELSE pc' = "done" /\ outcome' = Return(results)
    /\ UNCHANGED <<call, results, fs>>

NextBatch ==
    \/ CallBatchCheck
    \/ BatchNotify
    \/ BatchCheckOne
    \/ BatchSleep

SpecBatch == InitBatch /\ [][NextBatch]_vars

----------------------------------------------------------------------------
(* Properties of batch_check *)

OfKind(kinds) == SelectSeq(trace, LAMBDA e : e.ev \in kinds)

IsBatch == call.op = "batch_check"

BatchReturned == IsBatch /\ pc = "done" /\ outcome.kind = "return"

\* C1: a batch over N usernames returns exactly N results, result k for
\* username k, and sleeps for the delay N-1 times (never for N = 0): requests
\* and sleeps alternate, starting and ending with a request.  Whatever the
\* exchanges produce, a batch without a caller's callback ends by returning.
C1_BatchResultsAndSleeps ==
    /\ (IsBatch /\ pc = "done" /\ ~call.callback) => outcome.kind = "return"
    /\ BatchReturned =>
        LET N == Total
            rs == outcome.value
            x == OfKind({"request", "sleep"})
        IN /\ Len(rs) = N
           /\ \A k \in 1..N : rs[k].username = call.usernames[k]
           /\ Len(OfKind({"sleep"})) = IF N = 0 THEN 0 ELSE N - 1
           /\ Len(OfKind({"request"})) = N
           /\ \A p \in DOMAIN x : x[p].ev = IF p % 2 = 1 THEN "request" ELSE "sleep"
           /\ \A p \in DOMAIN x : x[p].ev = "sleep" => x[p].secs = call.delay
           /\ x # <<>> => x[Len(x)].ev = "request"

C1_Witness ==
    /\ BatchReturned
    /\ Total = 3
    /\ Len(outcome.value) = 3
    /\ Len(OfKind({"sleep"})) = 2
    /\ outcome.value[2].success = FALSE

\* what the k-th exchange of the batch produced
Exchange(k) == OfKind({"response"})[k].env

\* the check of a username fails: no 200 response, or a body that is not a
\* JSON object
FailedCheck(env) ==
    \/ env.kind = "raise"
    \/ env.status_code # 200
    \/ ~Parseable(env.text)
    \/ ~IsDict(JsonLoads(env.text))

\* str(e) of the failure of a check
StringifiedError(env) ==
    IF env.kind = "raise"
      THEN <<"Request timed out after ", "30", " seconds">>
    ELSE IF env.status_code = 429
      THEN <<"Rate limit exceeded. Please wait before making another request.">>
    ELSE IF env.status_code # 200
      THEN <<"API returned status code ", Str(env.status_code), ": ", env.text>>
    ELSE IF ~Parseable(env.text)
      THEN <<"Request failed: ", "Expecting value">>
    ELSE <<"list indices must be integers or slices, not str">>

\* C2: a failed check leaves, at its position, a result with success = false,
\* the stringified error, the username and a timestamp; the loop goes on with
\* the remaining usernames, and batch_check does not raise because of it (it
\* ends early only when the caller's callback raises).
C2_FailedCheckIsDowngraded ==
    IsBatch =>
        /\ Len(results) = Len(OfKind({"response"}))
        /\ \A k \in DOMAIN results :
             FailedCheck(Exchange(k)) =>
                 /\ results[k].success = FALSE
                 /\ results[k].error = StringifiedError(Exchange(k))
                 /\ results[k].username = call.usernames[k]
                 /\ "timestamp" \in DOMAIN results[k]
        /\ (pc = "done" /\ outcome.kind = "raise") =>
               trace[Len(trace)].ev = "callback"
        /\ (pc = "done" /\ outcome.kind = "return") =>
               (Len(results) = Total /\ outcome.value = results)

C2_Witness ==
    /\ BatchReturned
    /\ Total = 3
    /\ Exchange(1) = Response(200, "[]")
    /\ Exchange(2) = Response(429, "<html>")
    /\ results[1].success = FALSE
    /\ results[2].success = FALSE
    /\ results[3].success = TRUE

Notifications == OfKind({"callback", "print"})

\* C10: the callback is invoked once per username, in input order, with
\* (position, total, username), position running from 1; each invocation comes
\* right before the request for that username and right after the sleep that
\* follows the previous one.  Without a callback the default notification is
\* printed at the same point, and never both.
C10_ProgressBeforeEachCheck ==
    IsBatch =>
        /\ \A p \in DOMAIN Notifications :
             Notifications[p] =
                 IF call.callback
                   THEN [ev |-> "callback", current |-> p, total |-> Total,
                         username |-> call.usernames[p]]
                   ELSE [ev |-> "print",
                         text |-> <<"Checking ", Str(p), "/", Str(Total), ": @">>
                                  \o call.usernames[p]]
        /\ \A p \in DOMAIN trace :
             /\ trace[p].ev = "request" =>
                  (p > 1 /\ trace[p - 1].ev \in {"callback", "print"})
             /\ trace[p].ev \in {"callback", "print"} =>
                  (p = 1 \/ trace[p - 1].ev = "sleep")
        /\ Len(OfKind({"request"})) \in {Len(Notifications) - 1, Len(Notifications)}
        /\ BatchReturned => Len(Notifications) = Total

C10_Witness ==
    /\ BatchReturned
    /\ call.callback
    /\ Total = 3
    /\ Len(OfKind({"callback"})) = 3
    /\ OfKind({"callback"})[3].current = 3

\* C11: when the check of a username returns normally, the recorded result is
\* the parsed body with 'username' set to the username as the caller gave it
\* (leading '@' kept, a 'username' of the body overwritten) and 'timestamp'
\* set to the capture time; every other field, 'success', 'data' and 'error'
\* among them, is the body's, so a body with success = false is recorded as
\* a failed result without an exception.
C11_SuccessIsTaggedVerbatim ==
    IsBatch =>
        \A k \in DOMAIN results :
            ~FailedCheck(Exchange(k)) =>
                LET body == JsonLoads(Exchange(k).text)
                    r == results[k]
                IN /\ DOMAIN r = (DOMAIN body) \cup {"username", "timestamp"}
                   /\ r.username = call.usernames[k]
                   /\ \E t \in 1..clock : r.timestamp = Isoformat(t)
                   /\ \A key \in (DOMAIN body) \ {"username", "timestamp"} :
                          r[key] = body[key]

C11_Witness ==
    /\ BatchReturned
    /\ Total = 2
    /\ call.usernames[1] = <<"@", "b">>
    /\ Exchange(1) = Response(200, "{failed}")
    /\ Exchange(2) = Response(200, "{clean}")
    /\ outcome.value[1].username = <<"@", "b">>
    /\ outcome.value[1].success = FALSE
    /\ outcome.value[1].error = <<"User not found">>
    /\ outcome.value[2].data.is_clean

Requests == OfKind({"request"})

\* C14: batch_check neither retries nor backs off: whatever the exchanges
\* produce (rate limits and timeouts included), list position k gets exactly
\* one request, for username k; a request is answered before anything else
\* happens and the next thing after the answer is the fixed delay, never
\* another request; every sleep lasts the delay the caller gave.
C14_NoRetryNoBackoff ==
    IsBatch =>
        /\ Len(Requests) = Len(results)
        /\ Len(Requests) = Len(OfKind({"response"}))
        /\ Len(Requests) <= Total
        /\ BatchReturned => Len(Requests) = Total
        /\ \A k \in DOMAIN Requests :
             LET u == call.usernames[k]
                 sent == Requests[k].json.username
             IN /\ Requests[k].path = "/api/check-username-history"
                /\ \E n \in 0..Len(u) : sent = SubSeq(u, n + 1, Len(u))
        /\ \A p \in DOMAIN trace :
             /\ trace[p].ev = "request" =>
                  (p < Len(trace) /\ trace[p + 1].ev = "response")
             /\ (trace[p].ev = "response" /\ p < Len(trace)) =>
                  trace[p + 1].ev = "sleep"
             /\ trace[p].ev = "sleep" => trace[p].secs = call.delay

C14_Witness ==
    /\ BatchReturned
    /\ Total = 3
    /\ call.delay = 2
    /\ Exchange(1) = Response(429, "<html>")
    /\ Exchange(2) = Raise("ReadTimeout", <<>>)
    /\ Len(Requests) = 3
    /\ Len(OfKind({"sleep"})) = 2

\* C15: an exception of the caller's callback is not downgraded to a failed
\* result: it leaves batch_check as it is, at that position; the request for
\* that username is not issued, nothing is recorded for it, and the results
\* collected so far are not returned.
C15_CallbackErrorPropagates ==
    (IsBatch /\ pc = "done" /\ trace # <<>> /\ trace[Len(trace)].ev = "callback") =>
        LET at == trace[Len(trace)].current
        IN /\ outcome = Raise("ValueError", <<"callback failed">>)
           /\ at = i + 1
           /\ Len(Requests) = at - 1
           /\ Len(results) = at - 1
           /\ Len(results) < Total

C15_Witness ==
    /\ IsBatch /\ pc = "done"
    /\ Total = 3
    /\ outcome.kind = "raise" /\ outcome.cls = "ValueError"
    /\ trace[Len(trace)].ev = "callback"
    /\ trace[Len(trace)].current = 2
    /\ Len(Requests) = 1
    /\ Len(results) = 1

----------------------------------------------------------------------------
(* export_results *)

FileNames == {"out"}

Formats == {"json", "csv", "xml", "JSON", "yaml"}

CsvHeader == <<"username", "is_clean", "total_changes", "history", "timestamp">>

\* str(b) of a bool
BoolStr(b) == IF b THEN "True" ELSE "False"

\* A plausible slip: the previous usernames are written without a separator.
JoinWithoutSeparator(items) == items

\* ', '.join(items)
RECURSIVE Join(_)
Join(items) ==
    IF items = <<>> THEN <<>>
    ELSE IF Len(items) = 1 THEN items
    ELSE <<Head(items), ", ">> \o Join(Tail(items))

\* the row written for one successful result
CsvRow(result) ==
    LET data == Get(result, "data", EmptyDict)
    IN [username |-> Get(result, "username", <<>>),
        is_clean |-> IF "is_clean" \in DOMAIN data THEN BoolStr(data.is_clean) ELSE "",
        total_changes |-> Str(Get(data, "total_changes", 0)),
        history |-> Join(Get(data, "history", <<>>)),
        timestamp |-> Get(result, "timestamp", "")]

\* A plausible slip: a row is written for every result, failed or not.
RECURSIVE CsvRowsOfAll(_)
CsvRowsOfAll(rs) ==
    IF rs = <<>> THEN <<>> ELSE <<CsvRow(Head(rs))>> \o CsvRowsOfAll(Tail(rs))

\* the rows of: for result in results: if result.get('success'): writerow(...)
RECURSIVE CsvRows(_)
CsvRows(rs) ==
    IF rs = <<>> THEN <<>>
    ELSE (IF Get(Head(rs), "success", FALSE) THEN <<CsvRow(Head(rs))>> ELSE <<>>)
         \o CsvRows(Tail(rs))

\* what the csv branch leaves in the file
CsvContent(rs) ==
    IF rs # <<>>
      THEN [exists |-> TRUE, kind |-> "csv", header |-> CsvHeader, rows |-> CsvRows(rs)]
      ELSE [exists |-> TRUE, kind |-> "csv", header |-> <<>>, rows |-> <<>>]

\* what json.dump(results, f, indent=2) leaves in the file
JsonContent(rs) == [exists |-> TRUE, kind |-> "json", indent |-> 2, items |-> rs]

OpenEvent(filename) == [ev |-> "open", filename |-> filename, mode |-> "w"]

ExportedEvent(filename) == [ev |-> "print", text |-> <<"Results exported to ", filename>>]

OpenFailed == Raise("OSError", <<"Permission denied">>)

\* A plausible slip: the file is opened before the format is looked at.
ExportResultsOpensFirst(rs, filename, format, files, openOk) ==
    IF ~openOk
      THEN [fs |-> files, events |-> <<OpenEvent(filename)>>, outcome |-> OpenFailed]
    ELSE IF format = "json"
      THEN [fs |-> [files EXCEPT ![filename] = JsonContent(rs)],
            events |-> <<OpenEvent(filename), ExportedEvent(filename)>>,
            outcome |-> Return("None")]
    ELSE IF format = "csv"
      THEN [fs |-> [files EXCEPT ![filename] = CsvContent(rs)],
            events |-> <<OpenEvent(filename), ExportedEvent(filename)>>,
            outcome |-> Return("None")]
    ELSE [fs |-> [files EXCEPT ![filename] = [exists |-> TRUE, kind |-> "empty"]],
          events |-> <<OpenEvent(filename)>>,
          outcome |-> Raise("ValueError", <<"Unsupported format: ", format>>)]

\* export_results: the files, the effects and the outcome it leaves; openOk
\* tells whether the operating system lets the file be opened for writing
ExportResults(rs, filename, format, files, openOk) ==
    IF format = "json"
      THEN IF openOk
             THEN [fs |-> [files EXCEPT ![filename] = JsonContent(rs)],
                   events |-> <<OpenEvent(filename), ExportedEvent(filename)>>,
                   outcome |-> Return("None")]
             ELSE [fs |-> files, events |-> <<OpenEvent(filename)>>,
                   outcome |-> OpenFailed]
    ELSE IF format = "csv"
      THEN IF openOk
             THEN [fs |-> [files EXCEPT ![filename] = CsvContent(rs)],
                   events |-> <<OpenEvent(filename), ExportedEvent(filename)>>,
                   outcome |-> Return("None")]
             ELSE [fs |-> files, events |-> <<OpenEvent(filename)>>,
                   outcome |-> OpenFailed]
    ELSE [fs |-> files, events |-> <<>>,
          outcome |-> Raise("ValueError", <<"Unsupported format: ", format>>)]

\* one result of batch_check for this username and exchange
BatchItem(username, env, now) ==
    BatchExcept(BatchTryBody(username, env, now), username, now).value

\* the results given to export_results: results of a batch (clean, changed,
\* failed) and the untagged body a single check returns
ExportPool ==
    {BatchItem(<<"a">>, Response(200, "{clean}"), 1),
     BatchItem(<<"@", "b">>, Response(200, "{changed}"), 2),
     BatchItem(<<"a">>, Response(500, "<html>"), 3),
     JsonLoads("{clean}")}

ExportLists == UNION {[1..n -> ExportPool] : n \in 0..MaxExport}

\* a file written earlier
OldFile == [exists |-> TRUE, kind |-> "json", indent |-> 2, items |-> <<>>]

InitExport ==
    /\ pc = "idle"
    /\ call = [op |-> "none"]
    /\ trace = <<>>
    /\ outcome = [kind |-> "none"]
    /\ i = 0
    /\ results = <<>>
    /\ clock = 0
    /\ fs \in [FileNames -> {NoFile, OldFile}]

CallExportResults ==
    /\ pc = "idle"
    /\ \E rs \in ExportLists, filename \in FileNames, format \in Formats,
          openOk \in BOOLEAN :
         LET e == ExportResults(rs, filename, format, fs, openOk)
         IN /\ call' = [op |-> "export_results", results |-> rs,
                        filename |-> filename, format |-> format]
            /\ fs' = e.fs
            /\ trace' = trace \o e.events
            /\ outcome' = e.outcome
    /\ pc' = "done"
    /\ UNCHANGED <<i, results, clock>>

\* the caller goes on to its next export
ExportAgain ==
    /\ pc = "done"
    /\ pc' = "idle"
    /\ call' = [op |-> "none"]
    /\ trace' = <<>>
    /\ outcome' = [kind |-> "none"]
    /\ UNCHANGED <<i, results, clock, fs>>

NextExport ==
    \/ CallExportResults
    \/ ExportAgain

SpecExport == InitExport /\ [][NextExport]_vars

\* C7: export_results with a format other than 'json' and 'csv' fails with
\* the unsupported-format error and leaves the file system as it was: no file
\* is created, opened or truncated, and no confirmation is printed.
C7_UnsupportedFormatWritesNothing ==
    [][(pc = "idle" /\ pc' = "done" /\ call'.format \notin {"json", "csv"}) =>
          /\ outcome'.kind = "raise"
          /\ outcome'.cls = "ValueError"
          /\ outcome'.msg = <<"Unsupported format: ", call'.format>>
          /\ fs' = fs
          /\ trace' = trace]_vars

C7_Witness ==
    /\ pc = "done"
    /\ call.op = "export_results"
    /\ call.format = "xml"
    /\ call.results # <<>>
    /\ outcome.kind = "raise" /\ outcome.cls = "ValueError"
    /\ fs["out"] = NoFile
    /\ trace = <<>>

Exported(format) ==
    /\ pc = "done"
    /\ call.op = "export_results"
    /\ call.format = format
    /\ outcome.kind = "return"

Written == fs[call.filename]

Successful(r) == "success" \in DOMAIN r /\ r.success

\* the text of ', '.join(h): the items of h with ", " between neighbours
CommaJoined(h, text) ==
    /\ Len(text) = IF h = <<>> THEN 0 ELSE 2 * Len(h) - 1
    /\ \A k \in DOMAIN h : text[2 * k - 1] = h[k]
    /\ \A k \in 1..(Len(h) - 1) : text[2 * k] = ", "

\* the row of a successful result
RowCarries(row, r) ==
    /\ DOMAIN row = {"username", "is_clean", "total_changes", "history", "timestamp"}
    /\ row.username = IF "username" \in DOMAIN r THEN r.username ELSE <<>>
    /\ row.timestamp = IF "timestamp" \in DOMAIN r THEN r.timestamp ELSE ""
    /\ row.is_clean = IF r.data.is_clean THEN "True" ELSE "False"
    /\ row.total_changes = Str(r.data.total_changes)
    /\ CommaJoined(r.data.history, row.history)

FixedColumns == <<"username", "is_clean", "total_changes", "history", "timestamp">>

HeaderAndOneRowEach ==
    /\ Written.kind = "csv"
    /\ Written.header = FixedColumns
    /\ Len(Written.rows) = Len(call.results)
    /\ \A k \in DOMAIN call.results : RowCarries(Written.rows[k], call.results[k])

\* C13 as stated: the CSV export of a list of successful results writes the
\* header row with the five fixed columns and then one row per result, in
\* input order, each with the result's username and timestamp and its data's
\* is_clean, total_changes and comma-joined history.
C13_CsvHeaderAndRows ==
    (Exported("csv") /\ \A k \in DOMAIN call.results : Successful(call.results[k])) =>
        HeaderAndOneRowEach

\* C13 as amended: the same for a list of successful results that is not
\* empty (for one clean result: the header and one row with is_clean True and
\* total_changes 0).
C13_CsvHeaderAndRowsNonEmpty ==
    (/\ Exported("csv")
     /\ call.results # <<>>
     /\ \A k \in DOMAIN call.results : Successful(call.results[k])) =>
        HeaderAndOneRowEach

C13_Witness ==
    /\ Exported("csv")
    /\ Len(call.results) = 1
    /\ Written.header = FixedColumns
    /\ Written.rows = <<[username |-> <<"a">>, is_clean |-> "True",
                         total_changes |-> "0", history |-> <<>>,
                         timestamp |-> "T1"]>>

\* the positions of the successful results, in order
SuccessfulAt(rs) == {k \in DOMAIN rs : Successful(rs[k])}

\* C16: the CSV export writes data rows only for the results whose success
\* is truthy, in input order (only failed results: the header alone); an
\* empty list leaves an empty file without a header; the JSON export writes
\* every result, failed or not.
C16_CsvSkipsFailedResults ==
    /\ Exported("csv") =>
         LET rs == call.results
             ok == SuccessfulAt(rs)
         IN /\ Written.kind = "csv"
            /\ Written.header = IF rs = <<>> THEN <<>> ELSE FixedColumns
            /\ Len(Written.rows) = Cardinality(ok)
            /\ \A k \in ok :
                 RowCarries(Written.rows[Cardinality({j \in ok : j <= k})], rs[k])
    /\ Exported("json") =>
         /\ Written.kind = "json"
         /\ Written.items = call.results

C16_Witness ==
    /\ Exported("csv")
    /\ Len(call.results) = 2
    /\ ~Successful(call.results[1])
    /\ Successful(call.results[2])
    /\ Len(Written.rows) = 1
    /\ Written.rows[1].username = <<"@", "b">>
    /\ Written.rows[1].history = <<"old", ", ", "older">>

----------------------------------------------------------------------------
(* format_result *)

Stdout(text) == [ev |-> "print", text |-> text]

RuleLine == <<"==================================================">>

\* "\n".join(lines)
RECURSIVE JoinLines(_)
JoinLines(lines) ==
    IF lines = <<>> THEN <<>>
    ELSE IF Len(lines) = 1 THEN Head(lines)
    ELSE Head(lines) \o <<"\n">> \o JoinLines(Tail(lines))

FormatSuccessLines(data) ==
    <<<<"Username: @">> \o Get(data, "current_username", <<"unknown">>),
      <<"Status: ", IF Get(data, "is_clean", FALSE) THEN "CLEAN" ELSE "CHANGES DETECTED">>>>
    \o (IF Get(data, "total_changes", 0) > 0
          THEN <<<<"Total Changes: ", Str(data.total_changes)>>,
                 <<"\nPrevious Usernames:">>>>
               \o [k \in DOMAIN Get(data, "history", <<>>) |-> <<"  * ", data.history[k]>>]
          ELSE <<>>)
    \o (IF Get(data, "insights", <<>>) # <<>>
          THEN <<<<"\nInsights:">>>>
               \o [k \in DOMAIN data.insights |-> <<"  ", data.insights[k]>>]
          ELSE <<>>)

FormatErrorLines(result) ==
    <<<<"Error: ">> \o Get(result, "error", <<"Unknown error">>)>>
    \o (IF Get(result, "message", <<>>) # <<>>
          THEN <<<<"Message: ">> \o result.message>>
          ELSE <<>>)

\* format_result; a value without .get (a JSON array) makes it raise
FormatResult(result) ==
    IF ~IsDict(result)
      THEN Raise("AttributeError", <<"'list' object has no attribute 'get'">>)
      ELSE Return(JoinLines(
               <<RuleLine>>
               \o (IF Get(result, "success", FALSE)
                     THEN FormatSuccessLines(Get(result, "data", EmptyDict))
                     ELSE FormatErrorLines(result))
               \o <<RuleLine>>))

----------------------------------------------------------------------------
(* The command line: main() of monibags/cli.py *)

\* batch_check without a callback, run to its end: the results, the effects
\* and the clock it leaves
RECURSIVE BatchRun(_, _, _, _, _)
BatchRun(us, idx, delay, envs, now) ==
    IF idx >= Len(us)
      THEN [results |-> <<>>, events |-> <<>>, clock |-> now]
      ELSE LET username == us[idx + 1]
               t == now + 1
               item == BatchExcept(BatchTryBody(username, envs[idx + 1], t), username, t)
               sleeps == BatchShouldSleep(idx, Len(us))
               rest == BatchRun(us, idx + 1, delay, envs, IF sleeps THEN t + delay ELSE t)
           IN [results |-> <<item.value>> \o rest.results,
               events |-> <<BatchProgress(FALSE, idx, Len(us), username),
                            CheckRequest(username, DefaultCheckTimeout),
                            [ev |-> "response", env |-> envs[idx + 1]]>>
                          \o (IF sleeps THEN <<[ev |-> "sleep", secs |-> delay]>> ELSE <<>>)
                          \o rest.events,
               clock |-> rest.clock]

CliStep(files, events, out) == [fs |-> files, events |-> events, outcome |-> out]

\* sys.exit(1)
SysExit1 == Raise("SystemExit", <<"1">>)

\* except Exception as e: print(f"Error: {e}"); sys.exit(1)
CliExcept(step) ==
    IF step.outcome.kind = "raise" /\ IsInstance(step.outcome.cls, "Exception")
      THEN CliStep(step.fs,
                   step.events \o <<Stdout(<<"Error: ">> \o step.outcome.msg)>>,
                   SysExit1)
      ELSE step

\* args.output or the generated, time-stamped name
OutputFile(args) == IF args.output = "None" THEN "auto" ELSE args.output

\* no command: the help, then sys.exit(1)
CliNone == CliStep(fs, <<Stdout(<<"usage: monibags">>)>>, SysExit1)

\* check with one username
CliCheckOne(args, env, files, openOk) ==
    LET u == args.usernames[1]
        head == <<Stdout(<<"Checking @">> \o u \o <<"...">>),
                  CheckRequest(u, DefaultCheckTimeout)>>
        r == CheckUsernameHistory(u, DefaultCheckTimeout, env)
        f == IF r.kind = "return" THEN FormatResult(r.value) ELSE r
    IN CliExcept(
         IF f.kind = "raise" THEN CliStep(files, head, f)
         ELSE IF ~args.save
           THEN CliStep(files, head \o <<Stdout(f.value)>>, Return("None"))
         ELSE LET e == ExportResults(<<r.value>>, OutputFile(args), args.format,
                                     files, openOk)
              IN CliStep(e.fs, head \o <<Stdout(f.value)>> \o e.events, e.outcome))

\* check with several usernames: no try block around it
CliCheckMany(args, envs, files, openOk, now) ==
    LET b == BatchRun(args.usernames, 0, DefaultDelay, envs, now)
        shown == [k \in DOMAIN b.results |-> Stdout(FormatResult(b.results[k]).value)]
    IN IF ~args.save
         THEN CliStep(files, b.events \o shown, Return("None"))
         ELSE LET e == ExportResults(b.results, OutputFile(args), args.format,
                                     files, openOk)
              IN CliStep(e.fs, b.events \o shown \o e.events, e.outcome)

\* analyze
CliAnalyze(args, env, files, openOk) ==
    LET u == args.username
        head == <<Stdout(<<"Analyzing @">> \o u \o <<"...">>),
                  AnalyzeRequest(u, DefaultAnalyzeTimeout)>>
        r == AnalyzeProfile(u, DefaultAnalyzeTimeout, env)
        profile == Get(r.value, "profile", EmptyDict)
        report == <<Stdout(<<"\nProfile Analysis for @">> \o u),
                    Stdout(RuleLine),
                    Stdout(<<"Followers: ", Get(profile, "followers_count", "N/A")>>),
                    Stdout(<<"Following: ", Get(profile, "following_count", "N/A")>>),
                    Stdout(<<"Network size: ",
                            Str(Len(Get(r.value, "network", <<>>)))>>)>>
    IN CliExcept(
         IF r.kind = "raise" THEN CliStep(files, head, r)
         ELSE IF ~IsDict(r.value)
           THEN CliStep(files, head,
                        Raise("AttributeError", <<"'list' object has no attribute 'get'">>))
         ELSE IF ~Get(r.value, "success", FALSE)
           THEN CliStep(files,
                        head \o <<Stdout(<<"Error: ">>
                                        \o Get(r.value, "error", <<"Unknown error">>))>>,
                        Return("None"))
         ELSE IF ~args.save
           THEN CliStep(files, head \o report, Return("None"))
         ELSE IF ~openOk
           THEN CliStep(files, head \o report \o <<OpenEvent("auto")>>, OpenFailed)
         ELSE CliStep([files EXCEPT !["auto"] = JsonContent(r.value)],
                      head \o report
                      \o <<OpenEvent("auto"), Stdout(<<"\nAnalysis saved to ", "auto">>)>>,
                      Return("None")))

\* str.strip() of a line
RECURSIVE LstripSpace(_)
LstripSpace(s) == IF s # <<>> /\ Head(s) = " " THEN LstripSpace(Tail(s)) ELSE s

RECURSIVE RstripSpace(_)
RstripSpace(s) ==
    IF s # <<>> /\ s[Len(s)] = " " THEN RstripSpace(SubSeq(s, 1, Len(s) - 1)) ELSE s

Strip(s) == RstripSpace(LstripSpace(s))

\* [line.strip() for line in f if line.strip()]
RECURSIVE StrippedLines(_)
StrippedLines(lines) ==
    IF lines = <<>> THEN <<>>
    ELSE (IF Strip(Head(lines)) # <<>> THEN <<Strip(Head(lines))>> ELSE <<>>)
         \o StrippedLines(Tail(lines))

ReadEvent(filename) == [ev |-> "open", filename |-> filename, mode |-> "r"]

IsCleanResult(r) ==
    Get(r, "success", FALSE) /\ Get(Get(r, "data", EmptyDict), "is_clean", FALSE)

IsSuspiciousResult(r) ==
    Get(r, "success", FALSE) /\ ~Get(Get(r, "data", EmptyDict), "is_clean", FALSE)

IsErrorResult(r) == ~Get(r, "success", FALSE)

BatchSummary(rs) ==
    <<Stdout(<<"\n">> \o RuleLine), Stdout(<<"Batch Check Summary">>), Stdout(RuleLine),
      Stdout(<<"Total checked: ", Str(Len(rs))>>),
      Stdout(<<"Clean accounts: ", Str(Cardinality({k \in DOMAIN rs : IsCleanResult(rs[k])}))>>),
      Stdout(<<"Suspicious accounts: ", Str(Cardinality({k \in DOMAIN rs : IsSuspiciousResult(rs[k])}))>>),
      Stdout(<<"Errors: ", Str(Cardinality({k \in DOMAIN rs : IsErrorResult(rs[k])}))>>)>>

\* batch: the usernames of a file
CliBatch(args, envs, files, openOk, now) ==
    IF ~files[args.file].exists
      THEN CliStep(files,
                   <<ReadEvent(args.file),
                     Stdout(<<"Error: File '", args.file, "' not found">>)>>,
                   SysExit1)
      ELSE LET us == StrippedLines(files[args.file].lines)
               b == BatchRun(us, 0, args.delay, envs, now)
               out == OutputFile(args)
               events == <<ReadEvent(args.file),
                           Stdout(<<"Loaded ", Str(Len(us)), " usernames from ", args.file>>)>>
                         \o b.events \o BatchSummary(b.results) \o <<OpenEvent(out)>>
           IN IF openOk
                THEN CliStep([files EXCEPT ![out] = JsonContent(b.results)],
                             events \o <<Stdout(<<"\nDetailed results saved to ", out>>)>>,
                             Return("None"))
                ELSE CliExcept(CliStep(files, events, OpenFailed))

\* what the process ends with: 0 when main returns, the code of sys.exit, and
\* 1 after the traceback of an exception nobody caught
ExitCode(out) ==
    IF out.kind = "return" THEN 0
    ELSE IF out.cls = "SystemExit" THEN 1
    ELSE 1

CliNames == UNION {[1..n -> BatchNames] : n \in 1..MaxCliNames}

Outputs == {"None", "out"}

\* the lines of a batch file: usernames, one padded with blanks, and a blank line
Lines == {<<"a">>, <<" ", "@", "b", " ">>, <<" ">>}

BatchFiles ==
    {[exists |-> TRUE, kind |-> "text", lines |-> ls] :
        ls \in UNION {[1..n -> Lines] : n \in 0..MaxCliNames}}

InitCli ==
    /\ pc = "idle"
    /\ call = [op |-> "none"]
    /\ trace = <<>>
    /\ outcome = [kind |-> "none"]
    /\ i = 0
    /\ results = <<>>
    /\ clock = 0
    /\ \E input \in BatchFiles \cup {NoFile}, old \in {NoFile, OldFile} :
         fs = [f \in {"in", "out", "auto"} |->
                 IF f = "in" THEN input ELSE IF f = "out" THEN old ELSE NoFile]

Finish(cmd, step, now) ==
    /\ call' = cmd
    /\ fs' = step.fs
    /\ trace' = step.events
    /\ outcome' = step.outcome
    /\ clock' = now
    /\ pc' = "done"
    /\ UNCHANGED <<i, results>>

MainNoCommand ==
    /\ pc = "idle"
    /\ Finish([op |-> "cli", command |-> "none"], CliNone, clock)

MainCheckOne ==
    /\ pc = "idle"
    /\ \E u \in BatchNames, save \in BOOLEAN, output \in Outputs,
          format \in {"json", "csv"}, openOk \in BOOLEAN,
          env \in HttpOutcomes(DefaultCheckTimeout) :
         LET args == [usernames |-> <<u>>, save |-> save, output |-> output,
                      format |-> format]
         IN Finish([op |-> "cli", command |-> "check", args |-> args,
                    envs |-> <<env>>, openOk |-> openOk],
                   CliCheckOne(args, env, fs, openOk), clock)

MainCheckMany ==
    /\ pc = "idle"
    /\ \E us \in CliNames, save \in BOOLEAN, output \in Outputs,
          format \in {"json", "csv"}, openOk \in BOOLEAN :
         /\ Len(us) > 1
         /\ \E envs \in [1..Len(us) -> BatchOutcomes] :
              LET args == [usernames |-> us, save |-> save, output |-> output,
                           format |-> format]
                  step == CliCheckMany(args, envs, fs, openOk, clock)
              IN Finish([op |-> "cli", command |-> "check", args |-> args,
                         envs |-> envs, openOk |-> openOk],
                        step, BatchRun(us, 0, DefaultDelay, envs, clock).clock)

MainAnalyze ==
    /\ pc = "idle"
    /\ \E u \in BatchNames, save \in BOOLEAN, openOk \in BOOLEAN,
          env \in HttpOutcomes(DefaultAnalyzeTimeout) :
         LET args == [username |-> u, save |-> save]
         IN Finish([op |-> "cli", command |-> "analyze", args |-> args,
                    envs |-> <<env>>, openOk |-> openOk],
                   CliAnalyze(args, env, fs, openOk), clock)

MainBatch ==
    /\ pc = "idle"
    /\ \E delay \in Delays, output \in Outputs, openOk \in BOOLEAN :
         LET args == [file |-> "in", delay |-> delay, output |-> output]
             us == IF fs["in"].exists THEN StrippedLines(fs["in"].lines) ELSE <<>>
         IN \E envs \in [1..Len(us) -> BatchOutcomes] :
              Finish([op |-> "cli", command |-> "batch", args |-> args,
                      envs |-> envs, openOk |-> openOk],
                     CliBatch(args, envs, fs, openOk, clock),
                     BatchRun(us, 0, delay, envs, clock).clock)

NextCli ==
    \/ MainNoCommand
    \/ MainCheckOne
    \/ MainCheckMany
    \/ MainAnalyze
    \/ MainBatch

SpecCli == InitCli /\ [][NextCli]_vars

----------------------------------------------------------------------------
(* Properties of the command line *)

CliDone == pc = "done" /\ call.op = "cli"

\* a save was attempted and the file could not be opened
SaveFailed == ~call.openOk

\* an error occurred in the run: no command was given, the exchange of a
\* single check or analysis failed, the input file is missing, or the results
\* could not be saved
CliError ==
    CASE call.command = "none" -> TRUE
      [] call.command = "check" /\ Len(call.args.usernames) = 1 ->
           \/ FailedCheck(call.envs[1])
           \/ (call.args.save /\ SaveFailed)
      [] call.command = "check" /\ Len(call.args.usernames) > 1 ->
           call.args.save /\ SaveFailed
      [] call.command = "analyze" ->
           \/ FailedCheck(call.envs[1])
           \/ /\ JsonLoads(call.envs[1].text).success
              /\ call.args.save
              /\ SaveFailed
      [] call.command = "batch" ->
           \/ ~fs[call.args.file].exists
           \/ SaveFailed

LastEvent == trace[Len(trace)]

\* C12: in every command path an error is caught at the top level of main, a
\* message is printed and the process exits with code 1; a run without an
\* error does not exit with code 1.
C12_CliCatchesEveryError ==
    CliDone =>
        /\ outcome.kind = "raise" => outcome.cls = "SystemExit"
        /\ CliError =>
             /\ outcome = SysExit1
             /\ ExitCode(outcome) = 1
             /\ LastEvent.ev = "print"
        /\ ~CliError => ExitCode(outcome) # 1

====
